---- MODULE Spec2Model ----
(***************************************************************************)
(* State-reference normalization and setter rewriting of the Mitosis       *)
(* generators: transformState / hasFirstChildKeyAttribute (angular         *)
(* helpers) and stripThisRefs / valueMapper / processStateValue /          *)
(* updateStateSetters / updateStateSettersInCode (react state helpers).    *)
(*                                                                         *)
(* Source text (a JavaScript string) is a sequence of one-character        *)
(* strings, so String.includes, template literals and the regular          *)
(* expression of stripThisRefs are computed character by character.        *)
(* A JavaScript value that may be undefined is a sequence of length 0      *)
(* (undefined) or 1 (the value).                                           *)
(***************************************************************************)
EXTENDS Integers, Sequences, FiniteSets, TLC

VARIABLES heap, work, runs, out, json0, opts, last

vars == <<heap, work, runs, out, json0, opts, last>>

(***************************************************************************)
(* Bounds of the model.                                                    *)
(***************************************************************************)
\* the number of state entries of a parsed component
MaxEntries == 2
\* how many times a target's normalization pass may be run on its copy
MaxRuns == 2

(***************************************************************************)
(* Characters and strings.                                                 *)
(***************************************************************************)
Lower == {"a","b","c","d","e","f","g","h","i","j","k","l","m",
          "n","o","p","q","r","s","t","u","v","w","x","y","z"}
Upper == {"A","B","C","D","E","F","G","H","I","J","K","L","M",
          "N","O","P","Q","R","S","T","U","V","W","X","Y","Z"}
Digit == {"0","1","2","3","4","5","6","7","8","9"}

\* the character class [a-zA-Z_\$0-9] of stripThisRefs
IdentChar == Lower \cup Upper \cup Digit \cup {"_", "$"}

Undefined == << >>
Some(v) == << v >>
IsDefined(o) == Len(o) > 0

\* String.prototype.includes
includes(str, sub) ==
  \E i \in 1..(Len(str) - Len(sub) + 1) : SubSeq(str, i, i + Len(sub) - 1) = sub

\* str.startsWith(sub, i - 1), positions counted from 1
StartsAt(str, i, sub) ==
  /\ i + Len(sub) - 1 <= Len(str)
  /\ SubSeq(str, i, i + Len(sub) - 1) = sub

\* the text from position i on
From(str, i) == SubSeq(str, i, Len(str))

\* the end of the longest run of characters of class at position i (i - 1 if none)
RECURSIVE RunEnd(_, _, _)
RunEnd(str, i, class) ==
  IF i <= Len(str) /\ str[i] \in class THEN RunEnd(str, i + 1, class) ELSE i - 1

\* the number of (possibly overlapping) occurrences of sub in str
Occurrences(str, sub) == Cardinality({i \in 1..Len(str) : StartsAt(str, i, sub)})

\* the position of the first occurrence of sub in str at or after i, 0 if none
RECURSIVE IndexFrom(_, _, _)
IndexFrom(str, sub, i) ==
  IF i > Len(str) THEN 0
  ELSE IF StartsAt(str, i, sub) THEN i
  ELSE IndexFrom(str, sub, i + 1)

kState == <<"s","t","a","t","e",".">>
kProps == <<"p","r","o","p","s",".">>
kThis == <<"t","h","i","s",".">>
kNull == <<"n","u","l","l">>
kSet == <<"s","e","t">>
NL == <<"\n">>

(***************************************************************************)
(* The texts of the templates and of the sampled code.                     *)
(***************************************************************************)
\* 'const state = useLocalObservable(() => ('
kUseLocalObservable == <<"c","o","n","s","t"," ","s","t","a","t","e"," ","="," ","u","s","e","L","o","c","a","l","O","b","s","e","r","v","a","b","l","e","(","(",")"," ","=",">"," ","(">>

\* 'const state = useMutable('
kUseMutable == <<"c","o","n","s","t"," ","s","t","a","t","e"," ","="," ","u","s","e","M","u","t","a","b","l","e","(">>

\* 'const state = useBuilderState('
kUseBuilderState == <<"c","o","n","s","t"," ","s","t","a","t","e"," ","="," ","u","s","e","B","u","i","l","d","e","r","S","t","a","t","e","(">>

\* 'const state = useLocalProxy('
kUseLocalProxy == <<"c","o","n","s","t"," ","s","t","a","t","e"," ","="," ","u","s","e","L","o","c","a","l","P","r","o","x","y","(">>

\* 'state.a + 1'
codeStateRef == <<"s","t","a","t","e",".","a"," ","+"," ","1">>

\* 'props.p'
codePropsRef == <<"p","r","o","p","s",".","p">>

\* 'el.props.x'
codeOtherProps == <<"e","l",".","p","r","o","p","s",".","x">>

\* 'get g() { return state.a }'
codeGetter == <<"g","e","t"," ","g","(",")"," ","{"," ","r","e","t","u","r","n"," ","s","t","a","t","e",".","a"," ","}">>

\* 'function f() { state.a = props.p }'
codeFunction == <<"f","u","n","c","t","i","o","n"," ","f","(",")"," ","{"," ","s","t","a","t","e",".","a"," ","="," ","p","r","o","p","s",".","p"," ","}">>

\* 'm() { return 1 }'
codeMethod == <<"m","(",")"," ","{"," ","r","e","t","u","r","n"," ","1"," ","}">>

\* 'state.c = 2;'
codeHook == <<"s","t","a","t","e",".","c"," ","="," ","2",";">>

\* 'state.a = state.a + 1'
codeIncrement == <<"s","t","a","t","e",".","a"," ","="," ","s","t","a","t","e",".","a"," ","+"," ","1">>

\* 'count'
fieldCount == <<"c","o","u","n","t">>

\* 'state.count + 1'
rhsCountPlus == <<"s","t","a","t","e",".","c","o","u","n","t"," ","+"," ","1">>

\* 'this.a'
codeThisRef == <<"t","h","i","s",".","a">>

\* 'this.a + this.b1'
codeThisRefs == <<"t","h","i","s",".","a"," ","+"," ","t","h","i","s",".","b","1">>

\* 'state.a = 1; state.b = this.a'
codeTwoAssignments == <<"s","t","a","t","e",".","a"," ","="," ","1",";"," ","s","t","a","t","e",".","b"," ","="," ","t","h","i","s",".","a">>

\* 'state.a.b = 1'
codePropertyPath == <<"s","t","a","t","e",".","a",".","b"," ","="," ","1">>

\* 'state.a == 1'
codeComparison == <<"s","t","a","t","e",".","a"," ","=","="," ","1">>

\* 'count = count + 1'
codeBareAssignment == <<"c","o","u","n","t"," ","="," ","c","o","u","n","t"," ","+"," ","1">>

\* 'x => this.$el_1'
codeArrow == <<"x"," ","=",">"," ","t","h","i","s",".","$","e","l","_","1">>

(***************************************************************************)
(* Helpers of the repository that the generators import.                   *)
(***************************************************************************)
LowerSeq == <<"a","b","c","d","e","f","g","h","i","j","k","l","m",
              "n","o","p","q","r","s","t","u","v","w","x","y","z">>
UpperSeq == <<"A","B","C","D","E","F","G","H","I","J","K","L","M",
              "N","O","P","Q","R","S","T","U","V","W","X","Y","Z">>

toUpperCase(c) ==
  IF c \in Lower THEN UpperSeq[CHOOSE i \in 1..Len(LowerSeq) : LowerSeq[i] = c] ELSE c

\* @/helpers/capitalize: the first character in upper case, the rest as it is
capitalize(str) ==
  IF str = << >> THEN str ELSE <<toUpperCase(str[1])>> \o Tail(str)

\* whether an identifier may start at position i (no identifier character and no
\* member access before it)
IdentifierStart(code, i) == i = 1 \/ code[i - 1] \notin (IdentChar \cup {"."})

RECURSIVE stripRefsFrom(_, _, _, _)
stripRefsFrom(code, i, receivers, replaceWith) ==
  IF i > Len(code) THEN << >>
  ELSE IF IdentifierStart(code, i) /\ \E r \in receivers : StartsAt(code, i, r)
    THEN LET r == CHOOSE r \in receivers : StartsAt(code, i, r)
         IN  (IF replaceWith = << >> THEN << >> ELSE replaceWith \o <<".">>)
             \o stripRefsFrom(code, i + Len(r), receivers, replaceWith)
    ELSE <<code[i]>> \o stripRefsFrom(code, i + 1, receivers, replaceWith)

\* @/helpers/strip-state-and-props-refs: every member access on the identifier
\* state (props) is moved to the receiver replaceWith, or made a bare identifier
\* when replaceWith is empty
stripStateAndPropsRefs(code, replaceWith, includeProps, includeState) ==
  stripRefsFrom(code, 1,
                (IF includeProps THEN {kProps} ELSE {}) \cup
                (IF includeState THEN {kState} ELSE {}),
                replaceWith)

\* the text without the blanks at its ends
RECURSIVE trim(_)
trim(str) ==
  IF str = << >> THEN str
  ELSE IF Head(str) = " " THEN trim(Tail(str))
  ELSE IF str[Len(str)] = " " THEN trim(SubSeq(str, 1, Len(str) - 1))
  ELSE str

\* the printed form of a call expression node
generate(node) == node.callee.name \o <<"(">> \o node.arguments[1] \o <<")">>

\* one expression statement: when it is an assignment to state.<propertyName>, the
\* path of the assignment expression and the property's name, else undefined
stateAssignment(stmt) ==
  LET p    == RunEnd(stmt, 1, {" ", "\n"}) + 1
      e    == RunEnd(stmt, p + Len(kState), IdentChar)
      q    == RunEnd(stmt, e + 1, {" "}) + 1
      eq   == IF StartsAt(stmt, q, <<"+", "=">>) THEN q + 1 ELSE q
      isAssignment ==
        /\ StartsAt(stmt, p, kState)
        /\ e >= p + Len(kState)
        /\ StartsAt(stmt, eq, <<"=">>)
        /\ ~StartsAt(stmt, eq, <<"=", "=">>)
        /\ ~StartsAt(stmt, eq, <<"=", ">">>)
  IN  IF isAssignment
        THEN Some([path |-> [node |-> [left  |-> SubSeq(stmt, p, e),
                                       right |-> trim(From(stmt, eq + 1))]],
                   propertyName |-> SubSeq(stmt, p + Len(kState), e),
                   indent |-> SubSeq(stmt, 1, p - 1)])
        ELSE Undefined

\* the first position at or after i of a character of class, 0 if none
RECURSIVE IndexOfClass(_, _, _)
IndexOfClass(str, class, i) ==
  IF i > Len(str) THEN 0
  ELSE IF str[i] \in class THEN i
  ELSE IndexOfClass(str, class, i + 1)

\* the expression statements of value, each with the ';', '{' or '}' that ends it
RECURSIVE statements(_)
statements(value) ==
  LET end == IndexOfClass(value, {";", "{", "}"}, 1)
  IN  IF end = 0 THEN <<[text |-> value, sep |-> << >>]>>
      ELSE <<[text |-> SubSeq(value, 1, end - 1), sep |-> <<value[end]>>]>>
           \o statements(From(value, end + 1))

\* Array.prototype.join
RECURSIVE join(_, _)
join(strs, sep) ==
  IF strs = << >> THEN << >>
  ELSE IF Len(strs) = 1 THEN strs[1]
  ELSE strs[1] \o sep \o join(Tail(strs), sep)

\* @/helpers/transform-state-setters, the visitor: the assignment expressions of
\* value whose left-hand side is state.<field>, one entry per statement
stateAssignments(value) ==
  LET stmts == statements(value)
  IN  [i \in 1..Len(stmts) |-> stateAssignment(stmts[i].text)]

\* @/helpers/transform-state-setters: every assignment expression of value to a
\* state field is replaced by the node the transformer returned for it (nodes[i]
\* for the i-th statement), and the code is printed
transformStateSetters(value, nodes) ==
  LET stmts == statements(value)
      found == stateAssignments(value)
  IN  join([i \in 1..Len(stmts) |->
              (IF IsDefined(found[i])
                 THEN found[i][1].indent \o generate(nodes[i])
                 ELSE stmts[i].text) \o stmts[i].sep], << >>)

\* ../helpers processBinding: the independent-pairs flavor reads a state field by
\* its bare name
processBinding(str, options) ==
  IF options.stateType # "useState" THEN str
  ELSE stripStateAndPropsRefs(str, << >>, FALSE, TRUE)

kFunction == <<"f","u","n","c","t","i","o","n"," ">>
kGet == <<"g","e","t"," ">>

\* @/helpers/patterns replaceGetterWithFunction: a leading 'get ' becomes 'function '
replaceGetterWithFunction(str) ==
  IF StartsAt(str, 1, kGet) THEN kFunction \o From(str, Len(kGet) + 1) ELSE kFunction \o str

\* @/helpers/patterns prefixWithFunction
prefixWithFunction(str) == kFunction \o str

\* @/helpers/get-typed-function: the type parameter is put before the function's body
getTypedFunction(code, typescript, typeParameter) ==
  LET brace == IndexFrom(code, <<"{">>, 1)
  IN  IF ~typescript \/ ~IsDefined(typeParameter) \/ typeParameter[1] = << >> THEN code
      ELSE IF brace = 0 THEN code
      ELSE SubSeq(code, 1, brace - 2) \o <<":", " ">> \o typeParameter[1] \o From(code, brace)

\* fastClone that hands back the object itself
fastClone_alias(h, src) == [heap |-> h, ref |-> src]

\* fastClone of the generators' entry points: a new object with the contents of the
\* object at src; the heap is the sequence of the objects allocated so far
fastClone(h, src) == [heap |-> Append(h, h[src]), ref |-> Len(h) + 1]

(***************************************************************************)
(* generators/angular/helpers/index.ts                                     *)
(***************************************************************************)
\* the object's own property name, undefined when it has none
prop(obj, name) ==
  IF \E i \in 1..Len(obj) : obj[i].name = name
    THEN Some(obj[CHOOSE i \in 1..Len(obj) : obj[i].name = name].val)
    ELSE Undefined

\* accessesStateOrProps that forgets value.code.includes('props.')
accessesStateOrProps_stateOnly(value) ==
  /\ IsDefined(value)
  /\ value[1].type = "property"
  /\ value[1].code # << >>
  /\ includes(value[1].code, kState)

\* accessesStateOrProps that forgets value?.type === 'property'
accessesStateOrProps_anyType(value) ==
  /\ IsDefined(value)
  /\ value[1].code # << >>
  /\ (includes(value[1].code, kState) \/ includes(value[1].code, kProps))

\* accessesStateOrProps that forgets the two includes tests
accessesStateOrProps_anyCode(value) ==
  /\ IsDefined(value)
  /\ value[1].type = "property"
  /\ value[1].code # << >>

\* value?.type === 'property' && value.code && (value.code.includes('state.') ||
\* value.code.includes('props.'))
accessesStateOrProps(value) ==
  /\ IsDefined(value)
  /\ value[1].type = "property"
  /\ value[1].code # << >>
  /\ (includes(value[1].code, kState) \/ includes(value[1].code, kProps))

\* onInitTemplate that appends the statement to the hook's code
onInitTemplate_append(key, code, onInitCode) ==
  onInitCode \o NL \o kThis \o key \o <<" ", "=", " ">> \o code \o <<";">> \o NL

\* `\nthis.${key} = ${code};\n${onInitCode}`
onInitTemplate(key, code, onInitCode) ==
  NL \o kThis \o key \o <<" ", "=", " ">> \o code \o <<";">> \o NL \o onInitCode

\* moveToOnInit that forgets json.state[key].code = 'null'
moveToOnInit_keepCode(json, i) ==
  LET key   == json.state[i].key
      value == json.state[i].val
      code  == stripStateAndPropsRefs(value[1].code, <<"t","h","i","s">>, TRUE, TRUE)
      json2 == IF ~IsDefined(json.hooks.onInit) \/ json.hooks.onInit[1].code = << >>
                 THEN [json EXCEPT !.hooks.onInit = Some([code |-> << >>])]
                 ELSE json
  IN  [json2 EXCEPT !.hooks.onInit[1].code =
         NL \o kThis \o key \o <<" ", "=", " ">> \o code \o <<";">> \o NL \o @]

\* the body of the forEach callback for the i-th entry of json.state
moveToOnInit(json, i) ==
  LET key   == json.state[i].key
      value == json.state[i].val
      code  == stripStateAndPropsRefs(value[1].code, <<"t","h","i","s">>, TRUE, TRUE)
      json1 == [json EXCEPT !.state[i].val[1].code = kNull]
      json2 == IF ~IsDefined(json1.hooks.onInit) \/ json1.hooks.onInit[1].code = << >>
                 THEN [json1 EXCEPT !.hooks.onInit = Some([code |-> << >>])]
                 ELSE json1
  IN  [json2 EXCEPT !.hooks.onInit[1].code = onInitTemplate(key, code, @)]

\* Object.entries(json.state).reverse().forEach(...), from entry i down to the first
RECURSIVE transformStateFrom(_, _)
transformStateFrom(json, i) ==
  IF i = 0 THEN json
  ELSE transformStateFrom(
         IF accessesStateOrProps(json.state[i].val) THEN moveToOnInit(json, i) ELSE json,
         i - 1)

transformState(json) == transformStateFrom(json, Len(json.state))

\* hasFirstChildKeyAttribute that tests the key binding, not its code
hasFirstChildKeyAttribute_anyCode(node) ==
  IF ~IsDefined(node.children) \/ Len(node.children[1]) = 0 THEN FALSE
  ELSE LET firstChildBinding == node.children[1][1].bindings
       IN  /\ IsDefined(firstChildBinding)
           /\ IsDefined(prop(firstChildBinding[1], "key"))

hasFirstChildKeyAttribute(node) ==
  IF ~IsDefined(node.children) \/ Len(node.children[1]) = 0 THEN FALSE
  ELSE LET firstChildBinding == node.children[1][1].bindings
       IN  /\ IsDefined(firstChildBinding)
           /\ IsDefined(prop(firstChildBinding[1], "key"))
           /\ prop(firstChildBinding[1], "key")[1].code # << >>

(***************************************************************************)
(* generators/react/state.ts                                               *)
(***************************************************************************)
\* one replacement step of str.replace(/this\.([a-zA-Z_\$0-9]+)/g, '$1') from
\* position i on: a match is replaced by its group, and the search goes on after it
RECURSIVE replaceThisRefsFrom(_, _)
replaceThisRefsFrom(str, i) ==
  IF i > Len(str) THEN << >>
  ELSE IF StartsAt(str, i, kThis) /\ RunEnd(str, i + Len(kThis), IdentChar) >= i + Len(kThis)
    THEN LET e == RunEnd(str, i + Len(kThis), IdentChar)
         IN  SubSeq(str, i + Len(kThis), e) \o replaceThisRefsFrom(str, e + 1)
    ELSE <<str[i]>> \o replaceThisRefsFrom(str, i + 1)

\* stripThisRefs with the flavor test inverted
stripThisRefs_inverted(str, options) ==
  IF options.stateType = "useState" THEN str ELSE replaceThisRefsFrom(str, 1)

stripThisRefs(str, options) ==
  IF options.stateType # "useState" THEN str ELSE replaceThisRefsFrom(str, 1)

\* getSetStateFnName without capitalize
getSetStateFnName_plain(stateName) == kSet \o stateName

getSetStateFnName(stateName) == kSet \o capitalize(stateName)

\* the transformer updateStateSettersInCode hands to transformStateSetters
setterCall(path, propertyName) ==
  [type      |-> "CallExpression",
   callee    |-> [type |-> "Identifier", name |-> getSetStateFnName(propertyName)],
   arguments |-> <<path.node.right>>]

\* the transformer applied to each assignment transformStateSetters finds in value
setterCalls(value) ==
  LET found == stateAssignments(value)
  IN  [i \in 1..Len(found) |->
         IF IsDefined(found[i])
           THEN setterCall(found[i][1].path, found[i][1].propertyName)
           ELSE Undefined]

\* updateStateSettersInCode without the flavor test
updateStateSettersInCode_noGuard(value, options) ==
  transformStateSetters(value, setterCalls(value))

updateStateSettersInCode(value, options) ==
  IF options.stateType # "useState" THEN value
  ELSE transformStateSetters(value, setterCalls(value))

processHookCode(str, options) ==
  processBinding(updateStateSettersInCode(str, options), options)

valueMapper(options, val) == stripThisRefs(processHookCode(val, options), options)

kConst == <<"c","o","n","s","t"," ","[">>
kUseState == <<"u","s","e","S","t","a","t","e">>

processStateValue(options, entry) ==
  LET key      == entry.key
      stateVal == entry.val
  IN  IF ~IsDefined(stateVal) THEN << >>
      ELSE
        LET value         == stateVal[1].code
            type          == stateVal[1].type
            typeParameter == stateVal[1].typeParameter
            stateType     == IF options.typescript /\ IsDefined(typeParameter)
                                /\ typeParameter[1] # << >>
                               THEN <<"<">> \o typeParameter[1] \o <<">">>
                               ELSE << >>
        IN  IF type = "getter"
              THEN getTypedFunction(valueMapper(options, replaceGetterWithFunction(value)),
                                    options.typescript, typeParameter)
            ELSE IF type = "function"
              THEN getTypedFunction(valueMapper(options, value),
                                    options.typescript, typeParameter)
            ELSE IF type = "method"
              THEN getTypedFunction(valueMapper(options, prefixWithFunction(value)),
                                    options.typescript, typeParameter)
            ELSE kConst \o key \o <<",", " ">> \o getSetStateFnName(key) \o <<"]", " ", "=", " ">>
                 \o kUseState \o stateType \o <<"(", "(", ")", " ", "=", ">", " ", "(">>
                 \o valueMapper(options, value) \o <<")", ")">>

\* Object.entries(json.state).map(processStateValue(options)); the caller joins the
\* declarations with the line delimiter
getUseStateCode(json, options) ==
  join([i \in 1..Len(json.state) |-> processStateValue(options, json.state[i])],
       <<"\n", "\n", "\n">>)

\* the loop over item.bindings of one node: a binding whose code the rewrite changes
\* is replaced by a copy with the new code
updateBindings(bindings, options) ==
  [k \in 1..Len(bindings) |->
     LET values   == bindings[k].val
         newValue == updateStateSettersInCode(values.code, options)
     IN  IF newValue # values.code
           THEN [bindings[k] EXCEPT !.val = [values EXCEPT !.code = newValue]]
           ELSE bindings[k]]

\* traverse(...).forEach over a node and its descendants
RECURSIVE updateNode(_, _)
updateNode(item, options) ==
  [bindings |-> IF IsDefined(item.bindings)
                  THEN Some(updateBindings(item.bindings[1], options))
                  ELSE item.bindings,
   children |-> IF IsDefined(item.children)
                  THEN Some([c \in 1..Len(item.children[1]) |->
                               updateNode(item.children[1][c], options)])
                  ELSE item.children]

updateStateSetters(json, options) ==
  IF options.stateType # "useState" THEN json
  ELSE [json EXCEPT !.children = [c \in 1..Len(@) |-> updateNode(@[c], options)]]

\* @/helpers/get-state-object-string: the entries as one object literal
getStateObjectStringFromComponent(json) ==
  <<"{">> \o join([i \in 1..Len(json.state) |->
                    json.state[i].key \o <<":", " ">> \o
                    (IF IsDefined(json.state[i].val) THEN json.state[i].val[1].code
                     ELSE << >>)], <<",">>) \o <<"}">>

\* the flavors other than plain variables
getReactVariantStateString(hasState, options, json, useStateCode) ==
  IF ~hasState THEN << >>
  ELSE IF options.stateType = "mobx"
    THEN kUseLocalObservable \o getStateObjectStringFromComponent(json) \o <<")", ")", ";">>
  ELSE IF options.stateType = "useState" THEN useStateCode
  ELSE IF options.stateType = "solid"
    THEN kUseMutable \o getStateObjectStringFromComponent(json) \o <<")", ";">>
  ELSE IF options.stateType = "builder"
    THEN kUseBuilderState \o getStateObjectStringFromComponent(json) \o <<")", ";">>
  ELSE kUseLocalProxy \o getStateObjectStringFromComponent(json) \o <<")", ";">>

(***************************************************************************)
(* The inputs.                                                             *)
(***************************************************************************)
Targets == {"angular", "react"}

StateTypes == {"useState", "mobx", "valtio", "solid", "builder", "variables"}

\* the options of the react target of a compilation
ReactOptions ==
  {[stateType |-> "useState", typescript |-> TRUE],
   [stateType |-> "mobx", typescript |-> FALSE]}

AllOptions == [stateType : StateTypes, typescript : {FALSE}]

StateValue(type, code, typeParameter) ==
  Some([type |-> type, code |-> code, typeParameter |-> typeParameter])

StateValueSamples ==
  { StateValue("property", <<"1">>, Undefined),
    StateValue("property", codeStateRef, Undefined),
    StateValue("property", codePropsRef, Some(<<"T">>)),
    StateValue("property", << >>, Undefined),
    StateValue("getter", codeGetter, Undefined),
    StateValue("function", codeFunction, Undefined),
    StateValue("method", codeMethod, Undefined),
    StateValue("property", codeOtherProps, Undefined),
    Undefined }

\* the keys of the state entries, in declaration order
Keys == << <<"a">>, <<"b">>, <<"c">>, <<"d">> >>

StateSamples ==
  UNION { { [i \in 1..n |-> [key |-> Keys[i], val |-> f[i]]] :
            f \in [1..n -> StateValueSamples] } : n \in 0..MaxEntries }

HookSamples == { Undefined, Some([code |-> << >>]), Some([code |-> codeHook]) }

Binding(name, code) == [name |-> name, val |-> [code |-> code, type |-> "single"]]

Node(bindings, children) == [bindings |-> bindings, children |-> children]

ChildrenSamples ==
  { << >>,
    << Node(Some(<<Binding("onClick", codeIncrement)>>),
            Some(<<Node(Some(<<Binding("key", <<"i", "d">>)>>), Some(<< >>))>>)) >> }

JsonSamples ==
  { [state |-> st, hooks |-> [onInit |-> h], children |-> ch] :
      st \in StateSamples, h \in HookSamples, ch \in ChildrenSamples }

NoCall == [op |-> "none"]

(***************************************************************************)
(* A compilation: one parsed component (the object heap[1]) and one        *)
(* generation per target, each on the object work[t] refers to.            *)
(***************************************************************************)
Init ==
  /\ json0 \in JsonSamples
  /\ opts \in ReactOptions
  /\ heap = <<json0>>
  /\ work = [t \in Targets |-> 0]
  /\ runs = [t \in Targets |-> 0]
  /\ out = [t \in Targets |-> Undefined]
  /\ last = NoCall

\* componentToAngular / componentToReact start on a clone of the parsed component
BeginTarget(t) ==
  /\ work[t] = 0
  /\ LET c == fastClone(heap, 1)
     IN  /\ heap' = c.heap
         /\ work' = [work EXCEPT ![t] = c.ref]
  /\ UNCHANGED <<runs, out, json0, opts, last>>

\* transformState(json) mutates the object json refers to
RunTransformState ==
  /\ work["angular"] # 0
  /\ runs["angular"] < MaxRuns
  /\ ~IsDefined(out["angular"])
  /\ heap' = [heap EXCEPT ![work["angular"]] = transformState(@)]
  /\ runs' = [runs EXCEPT !["angular"] = @ + 1]
  /\ UNCHANGED <<work, out, json0, opts, last>>

\* updateStateSetters(json, options) mutates the object json refers to
RunUpdateStateSetters ==
  /\ work["react"] # 0
  /\ runs["react"] = 0
  /\ heap' = [heap EXCEPT ![work["react"]] = updateStateSetters(@, opts)]
  /\ runs' = [runs EXCEPT !["react"] = 1]
  /\ UNCHANGED <<work, out, json0, opts, last>>

\* what the angular generator declares: the state entries and the onInit hook
angularOutput(json) == [state |-> json.state, onInit |-> json.hooks.onInit]

\* what the react generator declares for the state
reactOutput(json, options) ==
  getReactVariantStateString(Len(json.state) > 0, options, json,
                             getUseStateCode(json, options))

EmitAngular ==
  /\ runs["angular"] >= 1
  /\ ~IsDefined(out["angular"])
  /\ out' = [out EXCEPT !["angular"] = Some(angularOutput(heap[work["angular"]]))]
  /\ UNCHANGED <<heap, work, runs, json0, opts, last>>

EmitReact ==
  /\ runs["react"] >= 1
  /\ ~IsDefined(out["react"])
  /\ out' = [out EXCEPT !["react"] = Some(reactOutput(heap[work["react"]], opts))]
  /\ UNCHANGED <<heap, work, runs, json0, opts, last>>

Next ==
  \/ \E t \in Targets : BeginTarget(t)
  \/ RunTransformState
  \/ RunUpdateStateSetters
  \/ EmitAngular
  \/ EmitReact

Spec == Init /\ [][Next]_vars

(***************************************************************************)
(* The helpers called on their own, each on inputs of its domain; last     *)
(* records the call and what it returned.                                  *)
(***************************************************************************)
\* the number of children of a node handed to hasFirstChildKeyAttribute
MaxChildren == 2

FieldSamples == { fieldCount, <<"a">>, <<"_", "x">> }

RhsSamples == { rhsCountPlus, <<"1">>, codeThisRef }

OperatorSamples == { <<" ", "=", " ">>, <<"=">>, <<" ", "+", "=", " ">> }

\* the text of the assignment state.<field> <operator> <right>
Assignment(field, operator, right) == kState \o field \o operator \o right

CodeSamples ==
  { << >>, codeThisRef, codeThisRefs, codeTwoAssignments, codePropertyPath, codeComparison, codeBareAssignment, codeArrow }
  \cup { Assignment(f, o, r) : f \in FieldSamples, o \in OperatorSamples, r \in RhsSamples }

ChildSamples ==
  { Node(Undefined, Undefined),
    Node(Some(<< >>), Some(<< >>)),
    Node(Some(<<Binding("key", << >>)>>), Some(<< >>)),
    Node(Some(<<Binding("key", <<"i", "d">>)>>), Some(<< >>)),
    Node(Some(<<Binding("class", <<"x">>)>>), Some(<< >>)),
    Node(Some(<<Binding("class", <<"x">>), Binding("key", <<"i", "d">>)>>), Undefined) }

NodeSamples ==
  { Node(Some(<< >>), Undefined) } \cup
  UNION { { Node(Some(<< >>), Some(ch)) : ch \in [1..n -> ChildSamples] } :
          n \in 0..MaxChildren }

\* components without state, with and without bindings that assign to state
BindingJsonSamples == { j \in JsonSamples : j.state = << >> }

InitFn ==
  /\ json0 = [state |-> << >>, hooks |-> [onInit |-> Undefined], children |-> << >>]
  /\ opts = [stateType |-> "useState", typescript |-> FALSE]
  /\ heap = <<json0>>
  /\ work = [t \in Targets |-> 0]
  /\ runs = [t \in Targets |-> 0]
  /\ out = [t \in Targets |-> Undefined]
  /\ last = NoCall

CallStripThisRefs ==
  /\ \E str \in CodeSamples, options \in AllOptions :
       last' = [op |-> "stripThisRefs", str |-> str, options |-> options,
                ret |-> stripThisRefs(str, options)]
  /\ UNCHANGED <<heap, work, runs, out, json0, opts>>

CallValueMapper ==
  /\ \E val \in CodeSamples, options \in AllOptions :
       last' = [op |-> "valueMapper", val |-> val, options |-> options,
                ret |-> valueMapper(options, val)]
  /\ UNCHANGED <<heap, work, runs, out, json0, opts>>

CallUpdateStateSettersInCode ==
  /\ \E value \in CodeSamples, options \in AllOptions :
       last' = [op |-> "updateStateSettersInCode", value |-> value, options |-> options,
                ret |-> updateStateSettersInCode(value, options)]
  /\ UNCHANGED <<heap, work, runs, out, json0, opts>>

CallUpdateStateSetters ==
  /\ \E json \in BindingJsonSamples, options \in AllOptions :
       last' = [op |-> "updateStateSetters", json |-> json, options |-> options,
                ret |-> updateStateSetters(json, options)]
  /\ UNCHANGED <<heap, work, runs, out, json0, opts>>

CallHasFirstChildKeyAttribute ==
  /\ \E node \in NodeSamples :
       last' = [op |-> "hasFirstChildKeyAttribute", node |-> node,
                ret |-> hasFirstChildKeyAttribute(node)]
  /\ UNCHANGED <<heap, work, runs, out, json0, opts>>

NextFn ==
  \/ CallStripThisRefs
  \/ CallValueMapper
  \/ CallUpdateStateSettersInCode
  \/ CallUpdateStateSetters
  \/ CallHasFirstChildKeyAttribute

SpecFn == InitFn /\ [][NextFn]_vars

(***************************************************************************)
(* Properties of the reference normalization pass (transformState).        *)
(***************************************************************************)
\* the angular target's working copy, once transformState has run on it
Normalized == work["angular"] # 0 /\ runs["angular"] >= 1
AngularJson == heap[work["angular"]]

HookCode(json) ==
  IF IsDefined(json.hooks.onInit) THEN json.hooks.onInit[1].code ELSE << >>

\* a value-kind entry whose initializer textually references state or props
IsValue(entry) == IsDefined(entry.val) /\ entry.val[1].type = "property"
References(code) == includes(code, kState) \/ includes(code, kProps)
Relocatable(entry) == IsValue(entry) /\ References(entry.val[1].code)

\* the initializer with its state and props references on the this receiver
Rewritten(entry) ==
  stripStateAndPropsRefs(entry.val[1].code, <<"t","h","i","s">>, TRUE, TRUE)

\* 'this.<key> = ', the start of an assignment to the entry in the init hook
AssignmentTo(key) == kThis \o key \o <<" ", "=", " ">>

\* 'this.<key> = <rewritten code>;'
StatementOf(entry) == AssignmentTo(entry.key) \o Rewritten(entry) \o <<";">>

\* the statements of the relocatable entries from the i-th on, in declaration order
RECURSIVE StatementsFrom(_, _)
StatementsFrom(state, i) ==
  IF i > Len(state) THEN << >>
  ELSE (IF Relocatable(state[i]) THEN NL \o StatementOf(state[i]) \o NL ELSE << >>)
       \o StatementsFrom(state, i + 1)

\* entry a, a value without references, then entry b, a value that references a
OrderCase(json) ==
  /\ Len(json.state) >= 2
  /\ IsValue(json.state[1]) /\ json.state[1].val[1].code # << >>
  /\ ~References(json.state[1].val[1].code)
  /\ IsValue(json.state[2])
  /\ includes(json.state[2].val[1].code, kState \o json.state[1].key)

\* C2, as the spec states it: for state entries a (a value without state/props
\* references) then b (a value whose initializer references a), after
\* transformState the onInit statement sequence assigns a before it assigns b.
C2_AssignsABeforeB ==
  (Normalized /\ OrderCase(json0)) =>
    \E i, j \in 1..Len(HookCode(AngularJson)) :
      /\ i < j
      /\ StartsAt(HookCode(AngularJson), i, AssignmentTo(json0.state[1].key))
      /\ StartsAt(HookCode(AngularJson), j, AssignmentTo(json0.state[2].key))

\* C2, amended: for state entries a (a value without state/props references) then
\* b (a value whose initializer references a), after transformState entry a keeps
\* its declared initializer and the onInit hook holds no assignment to a, while b
\* is declared with the placeholder and the onInit hook assigns b.
C2_OnlyBIsAssignedInOnInit ==
  (Normalized /\ OrderCase(json0)) =>
    /\ AngularJson.state[1] = json0.state[1]
    /\ ~includes(HookCode(AngularJson), AssignmentTo(json0.state[1].key))
    /\ AngularJson.state[2].val[1].code = kNull
    /\ Occurrences(HookCode(AngularJson), AssignmentTo(json0.state[2].key)) = 1

C2_Witness ==
  /\ Normalized /\ OrderCase(json0)
  /\ includes(HookCode(AngularJson), StatementOf(json0.state[2]))

\* C3: once transformState has run on a component, running it again changes
\* neither a state entry nor the onInit hook (nor anything else of the component).
C3_Idempotent ==
  [][Normalized => AngularJson' = AngularJson]_vars

C3_Witness ==
  /\ work["angular"] # 0 /\ runs["angular"] >= 2
  /\ \E i \in 1..Len(json0.state) : Relocatable(json0.state[i])
  /\ HookCode(json0) # << >>

\* C7: after transformState no value-kind entry has code that references state or
\* props; every entry that had such a reference has the placeholder 'null' as its
\* code and exactly one statement 'this.<key> = <rewritten code>;' in the onInit hook.
C7_NoReferenceLeft ==
  Normalized =>
    \A i \in 1..Len(AngularJson.state) :
      /\ IsValue(AngularJson.state[i]) => ~References(AngularJson.state[i].val[1].code)
      /\ Relocatable(json0.state[i]) =>
           /\ AngularJson.state[i].val[1].code = kNull
           /\ IsDefined(AngularJson.hooks.onInit)
           /\ Occurrences(HookCode(AngularJson), StatementOf(json0.state[i])) = 1

C7_Witness ==
  /\ Normalized
  /\ \E i \in 1..Len(json0.state) :
       /\ Relocatable(json0.state[i])
       /\ includes(json0.state[i].val[1].code, kProps)
       /\ AngularJson.state[i].val[1].code = kNull

\* C8: the onInit code after transformState is the statements of the relocated
\* entries in declaration order, followed by the code the hook had before,
\* unchanged; a hook is created when there was none and an entry is relocated.
C8_DeclarationOrder ==
  Normalized =>
    /\ HookCode(AngularJson) = StatementsFrom(json0.state, 1) \o HookCode(json0)
    /\ (\E i \in 1..Len(json0.state) : Relocatable(json0.state[i]))
         => IsDefined(AngularJson.hooks.onInit)

C8_Witness ==
  /\ Normalized
  /\ Cardinality({i \in 1..Len(json0.state) : Relocatable(json0.state[i])}) >= 2
  /\ HookCode(json0) # << >>
  /\ HookCode(AngularJson) # HookCode(json0)

\* C9: transformState leaves every entry that is not value-kind, has empty code or
\* references neither state nor props as it was, adds no assignment to it to the
\* onInit hook, and keeps the keys of the state and their order.
C9_Frame ==
  Normalized =>
    /\ Len(AngularJson.state) = Len(json0.state)
    /\ \A i \in 1..Len(json0.state) :
         /\ AngularJson.state[i].key = json0.state[i].key
         /\ ~Relocatable(json0.state[i]) =>
              /\ AngularJson.state[i] = json0.state[i]
              /\ ~includes(HookCode(AngularJson), AssignmentTo(json0.state[i].key))
    /\ (\A i \in 1..Len(json0.state) : ~Relocatable(json0.state[i]))
         => AngularJson.hooks = json0.hooks

C9_Witness ==
  /\ Normalized
  /\ \E i, j \in 1..Len(json0.state) :
       /\ IsDefined(json0.state[i].val)
       /\ json0.state[i].val[1].type = "getter"
       /\ References(json0.state[i].val[1].code)
       /\ Relocatable(json0.state[j])

(***************************************************************************)
(* Isolation of the targets of one compilation.                            *)
(***************************************************************************)
\* what a target emits when it is the only one generated from the parsed component
AloneOutput(t) ==
  IF t = "angular" THEN angularOutput(transformState(json0))
  ELSE reactOutput(updateStateSetters(json0, opts), opts)

\* C1: whatever the other target has done so far, a target's output declares the
\* state as it does when the target is generated alone from the parsed component.
C1_Isolation ==
  \A t \in Targets : IsDefined(out[t]) => out[t][1] = AloneOutput(t)

C1_Witness ==
  /\ IsDefined(out["angular"]) /\ IsDefined(out["react"])
  /\ opts.stateType = "useState"
  /\ json0.children # << >>
  /\ \E i \in 1..Len(json0.state) : Relocatable(json0.state[i])
  /\ heap[work["angular"]] # json0
  /\ heap[work["react"]] # json0

(***************************************************************************)
(* Properties of the setter rewrite, the reference style and key detection.*)
(***************************************************************************)
UseState(options) == options.stateType = "useState"

\* the setters of the sampled fields, written out
SetterOf(field) ==
  CASE field = fieldCount -> <<"s", "e", "t", "C", "o", "u", "n", "t">>
    [] field = <<"a">> -> <<"s", "e", "t", "A">>
    [] field = <<"_", "x">> -> <<"s", "e", "t", "_", "x">>

\* C4: with the independent-pairs flavor (stateType 'useState') an assignment whose
\* left-hand side is the state field f becomes the call set<F>(<right-hand side>),
\* the right-hand expression unchanged as its only argument.
\* When the code is materialized (valueMapper), the state references of the
\* argument are bare as well: state.count = state.count + 1 is setCount(count + 1).
C4_SetterCall ==
  /\ (last.op = "updateStateSettersInCode" /\ UseState(last.options)) =>
       \A f \in FieldSamples, o \in OperatorSamples, r \in RhsSamples :
         last.value = Assignment(f, o, r) =>
           last.ret = SetterOf(f) \o <<"(">> \o r \o <<")">>
  /\ (last.op = "valueMapper" /\ UseState(last.options)
        /\ last.val = Assignment(fieldCount, <<" ", "=", " ">>, rhsCountPlus)) =>
       last.ret = <<"s", "e", "t", "C", "o", "u", "n", "t", "(",
                    "c", "o", "u", "n", "t", " ", "+", " ", "1", ")">>

C4_Witness ==
  /\ last.op = "updateStateSettersInCode" /\ UseState(last.options)
  /\ last.value = Assignment(fieldCount, <<" ", "=", " ">>, rhsCountPlus)
  /\ last.ret = <<"s", "e", "t", "C", "o", "u", "n", "t">> \o <<"(">> \o rhsCountPlus \o <<")">>

\* C5: for every flavor other than independent-pairs, updateStateSettersInCode
\* returns its input unchanged and updateStateSetters leaves the component, and so
\* every binding of every node, unchanged.
C5_PassThrough ==
  /\ (last.op = "updateStateSettersInCode" /\ ~UseState(last.options))
       => last.ret = last.value
  /\ (last.op = "updateStateSetters" /\ ~UseState(last.options))
       => last.ret = last.json

C5_Witness ==
  /\ last.op = "updateStateSettersInCode" /\ last.options.stateType = "mobx"
  /\ last.value = Assignment(fieldCount, <<" ", "=", " ">>, rhsCountPlus)
  /\ last.ret = last.value

\* the bindings of the first child that are named key and have non-empty code
FirstChildKeys(node) ==
  IF ~IsDefined(node.children) \/ node.children[1] = << >> THEN {}
  ELSE LET b == node.children[1][1].bindings
       IN  IF ~IsDefined(b) THEN {}
           ELSE {k \in 1..Len(b[1]) : b[1][k].name = "key" /\ Len(b[1][k].val.code) > 0}

\* C6: hasFirstChildKeyAttribute is true exactly when the node has a first child
\* whose bindings hold a 'key' binding with non-empty code; a key on another child
\* does not count.
C6_KeyDetection ==
  last.op = "hasFirstChildKeyAttribute" =>
    (last.ret <=> FirstChildKeys(last.node) # {})

C6_Witness ==
  /\ last.op = "hasFirstChildKeyAttribute"
  /\ ~last.ret
  /\ IsDefined(last.node.children) /\ Len(last.node.children[1]) >= 2
  /\ FirstChildKeys(Node(last.node.bindings, Some(Tail(last.node.children[1])))) # {}

\* a reference 'this.<identifier>' in the text
HasThisRef(str) ==
  \E i \in 1..Len(str) :
    /\ StartsAt(str, i, kThis)
    /\ i + Len(kThis) <= Len(str)
    /\ str[i + Len(kThis)] \in IdentChar

\* the text with every 'this.' taken out
RECURSIVE WithoutReceiver(_)
WithoutReceiver(str) ==
  LET i == IndexFrom(str, kThis, 1)
  IN  IF i = 0 THEN str
      ELSE SubSeq(str, 1, i - 1) \o WithoutReceiver(From(str, i + Len(kThis)))

\* C10: for the independent-pairs flavor stripThisRefs, and so valueMapper, reduces
\* every reference 'this.<identifier>' to the bare identifier; for every other
\* flavor stripThisRefs, and so valueMapper, returns the code as it is.
C10_ReferenceStyle ==
  /\ (last.op = "stripThisRefs" /\ UseState(last.options))
       => /\ ~HasThisRef(last.ret)
          /\ last.ret = WithoutReceiver(last.str)
  /\ (last.op = "stripThisRefs" /\ ~UseState(last.options))
       => last.ret = last.str
  /\ (last.op = "valueMapper" /\ UseState(last.options))
       => ~HasThisRef(last.ret)
  /\ (last.op = "valueMapper" /\ ~UseState(last.options))
       => last.ret = last.val

C10_Witness ==
  /\ last.op = "stripThisRefs" /\ UseState(last.options)
  /\ Occurrences(last.str, kThis) >= 2
  /\ ~HasThisRef(last.ret)
====
